---- MODULE Spec2Model ----
(***************************************************************************)
(* Meeting recorder back end: the per-session reorder-and-drain sequencer  *)
(* (app/workers.py ChunkProcessor), the session store it works on          *)
(* (app/storage.py SessionStorage), the summary trigger policy and the     *)
(* session life cycle, and the WebSocket fan-out (app/main.py              *)
(* WebSocketManager), as asyncio runs them: one event loop, every          *)
(* coroutine runs without interruption from one await that really          *)
(* suspends to the next.                                                   *)
(***************************************************************************)
EXTENDS Integers, Sequences, FiniteSets, TLC

\* ------------------------------------------------------------- bounds
\* Highest sequence number a client uploads.
MaxSeq == 2
\* Upload requests over a run.
MaxUploads == 3
\* Summary intervals the clock runs through.
MaxTicks == 1
\* Requests (create, upload, end) over a run of SpecLife.
MaxRequests == 4
\* Ranges of the summary policy's inputs (SpecPolicy).
MaxWords == 201
MaxElapsed == 31
\* Longest transcript a session is ended with in SpecFinal, in words.
MaxSpoken == 12

\* -------------------------------------------------- program constants
SUMMARY_WORD_THRESHOLD == 200
SUMMARY_TIME_INTERVAL == 30
\* storage.py:121, the floor of the time arm
TimeArmFloor == 50
\* workers.py:145, fewest words the chunk pipeline summarises
MinSummaryWords == 30
\* workers.py:195 with the floor of the chunk pipeline.
MinFinalWords_pipeline == MinSummaryWords
\* workers.py:195, fewest words finalize_session summarises
MinFinalWords == 10

SessionIds == {"S1", "S2"}
Seqs == 0..MaxSeq
\* SUPPORTED_FORMATS the clients of the model use
Extensions == {".webm"}
\* SUPPORTED_FORMATS a client of SpecBuffer uploads one chunk in
Formats == {".webm", ".wav"}
\* Words the recogniser returns for a chunk (0: silence, None).
SpeechChoices == {0, 120}
\* Words of the recogniser's end-of-stream result (0: None).
FlushChoices == {0, 6}
FlushText(w) == [seq |-> -2, words |-> w]
\* Session ids the requests of Spec carry.
Clients == {"S1"}
\* WebSocket clients of /ws.
Subscribers == {"W1", "W2", "W3"}

VARIABLES
    sessions,      \* storage.sessions: session id -> session record
    recognizers,   \* transcriber.recognizers: ids holding a recogniser
    tasks,         \* live coroutines, in creation order
    events,        \* messages handed to WebSocketManager.broadcast
    active_connections,  \* ws_manager.active_connections, a list
    inbox,         \* client -> the frames written to its socket, in order
    broken,        \* clients whose socket is gone: send_text raises
    send_calls,    \* history: calls of send_text so far
    summarize_calls,     \* history: id -> calls of summarizer.summarize
    rejected,      \* history: requests answered with an HTTP error
    now,           \* datetime.now().timestamp(), as last read
    conv_ok,       \* seq -> does ffmpeg convert that chunk's audio
    speech,        \* seq -> words the recogniser hears in that chunk
    arrivals,      \* history: id -> the seq of each upload, in order
    admitted,      \* history: id -> seq -> entries into the pipeline
    creates,       \* history: id -> create_session calls
    ends,          \* history: end_session requests
    decision       \* last result of should_generate_summary (SpecPolicy)

\* The fan-out state, and the history of the external calls.
wire == <<active_connections, inbox, broken, send_calls>>
calls == <<summarize_calls, rejected>>

vars == <<sessions, recognizers, tasks, events, now, conv_ok, speech,
          arrivals, admitted, creates, ends, decision, wire, calls>>

\* ------------------------------------------------------------- texts
\* A recognised text is a span of words; the transcript is a string of
\* delimiters and spans.
Space == [seq |-> -1, words |-> 0]
TextOf(seq) == [seq |-> seq, words |-> speech[seq]]

\* len(transcript.split())
RECURSIVE SplitLen(_)
SplitLen(tr) == IF tr = <<>> THEN 0 ELSE tr[1].words + SplitLen(Tail(tr))

NoSummary == <<>>
SummaryOf(transcript) == <<SplitLen(transcript)>>
\* TextSummarizer.summarize: "" or the summary sentences
SummarizeResults(transcript) ==
    IF transcript = <<>> THEN {NoSummary}
    ELSE {NoSummary, SummaryOf(transcript)}

\* ----------------------------------------------------- SessionStorage
EmptyBuffer == [s \in {} |-> <<>>]

NewSession(t) ==
    [status |-> "active", chunks_received |-> 0, transcript |-> <<>>,
     summary |-> NoSummary, expected_seq |-> 0,
     buffered_chunks |-> EmptyBuffer, last_summary_time |-> t,
     word_count |-> 0]

create_session(S, sid, t) ==
    [x \in DOMAIN S \cup {sid} |-> IF x = sid THEN NewSession(t) ELSE S[x]]

\* save_chunk that also puts the session back to active.
save_chunk_reopens(S, sid) ==
    IF sid \in DOMAIN S
    THEN [S EXCEPT ![sid].chunks_received = @ + 1, ![sid].status = "active"]
    ELSE S

save_chunk(S, sid) ==
    IF sid \in DOMAIN S
    THEN [S EXCEPT ![sid].chunks_received = @ + 1]
    ELSE S

\* update_transcript called with append=False (line 72).
update_transcript_replaces(S, sid, text) ==
    IF sid \notin DOMAIN S THEN S
    ELSE LET tr == <<text>>
         IN  [S EXCEPT ![sid].transcript = tr, ![sid].word_count = SplitLen(tr)]

\* update_transcript without lines 75-77: the text is appended and the
\* word count left as it was.
update_transcript_stale_count(S, sid, text) ==
    IF sid \notin DOMAIN S THEN S
    ELSE [S EXCEPT ![sid].transcript = @ \o <<Space, text>>]

update_transcript(S, sid, text) ==
    IF sid \notin DOMAIN S THEN S
    ELSE LET tr == S[sid].transcript \o <<Space, text>>
         IN  [S EXCEPT ![sid].transcript = tr, ![sid].word_count = SplitLen(tr)]

\* update_summary that starts the word count afresh (an edge trigger).
update_summary_resets_words(S, sid, summary, t) ==
    IF sid \notin DOMAIN S THEN S
    ELSE [S EXCEPT ![sid].summary = summary, ![sid].last_summary_time = t,
                   ![sid].word_count = 0]

update_summary(S, sid, summary, t) ==
    IF sid \notin DOMAIN S THEN S
    ELSE [S EXCEPT ![sid].summary = summary, ![sid].last_summary_time = t]

get_transcript(S, sid) == IF sid \in DOMAIN S THEN S[sid].transcript ELSE <<>>

get_summary(S, sid) == IF sid \in DOMAIN S THEN S[sid].summary ELSE NoSummary

\* The time arm with its floor included (>= for >).
should_generate_summary_floor(S, sid, word_threshold, time_interval, t) ==
    IF sid \notin DOMAIN S THEN FALSE
    ELSE \/ S[sid].word_count >= word_threshold
         \/ /\ t - S[sid].last_summary_time >= time_interval
            /\ S[sid].word_count >= TimeArmFloor

should_generate_summary(S, sid, word_threshold, time_interval, t) ==
    IF sid \notin DOMAIN S THEN FALSE
    ELSE IF S[sid].word_count >= word_threshold THEN TRUE
    ELSE IF t - S[sid].last_summary_time >= time_interval
            /\ S[sid].word_count > TimeArmFloor THEN TRUE
    ELSE FALSE

mark_session_ended(S, sid) ==
    IF sid \in DOMAIN S THEN [S EXCEPT ![sid].status = "ended"] ELSE S

get_expected_seq(S, sid) == IF sid \in DOMAIN S THEN S[sid].expected_seq ELSE 0

\* increment_expected_seq on one counter kept for all sessions.
increment_expected_seq_global(S, sid) ==
    IF sid \in DOMAIN S
    THEN [x \in DOMAIN S |-> [S[x] EXCEPT !.expected_seq = @ + 1]] ELSE S

increment_expected_seq(S, sid) ==
    IF sid \in DOMAIN S THEN [S EXCEPT ![sid].expected_seq = @ + 1] ELSE S

\* buffer_future_chunk that keeps an entry the buffer already has
\* (setdefault for the assignment).
buffer_future_chunk_keeps_first(S, sid, seq, path) ==
    IF sid \notin DOMAIN S THEN S
    ELSE LET b == S[sid].buffered_chunks
         IN  [S EXCEPT ![sid].buffered_chunks =
                 [k \in DOMAIN b \cup {seq} |->
                     IF k \in DOMAIN b THEN b[k] ELSE path]]

buffer_future_chunk(S, sid, seq, path) ==
    IF sid \notin DOMAIN S THEN S
    ELSE LET b == S[sid].buffered_chunks
         IN  [S EXCEPT ![sid].buffered_chunks =
                 [k \in DOMAIN b \cup {seq} |-> IF k = seq THEN path ELSE b[k]]]

has_buffered_chunk(S, sid, seq) ==
    sid \in DOMAIN S /\ seq \in DOMAIN S[sid].buffered_chunks

remove_buffered_chunk(S, sid, seq) ==
    IF has_buffered_chunk(S, sid, seq)
    THEN LET b == S[sid].buffered_chunks
         IN  [S EXCEPT ![sid].buffered_chunks = [k \in DOMAIN b \ {seq} |-> b[k]]]
    ELSE S

\* ------------------------------------------------------------ events
\* The dict handed to WebSocketManager.broadcast.
TranscriptUpdate(S, sid, text) ==
    [type |-> "transcript_update", session_id |-> sid, text |-> text,
     transcript |-> get_transcript(S, sid), summary |-> NoSummary]

SessionEnded(S, sid) ==
    [type |-> "session_ended", session_id |-> sid, text |-> Space,
     transcript |-> get_transcript(S, sid), summary |-> get_summary(S, sid)]

SummaryEvent(sid, summary) ==
    [type |-> "summary", session_id |-> sid, text |-> Space,
     transcript |-> <<>>, summary |-> summary]

\* -------------------------------------------------- WebSocketManager
\* A broadcast in progress, as its coroutine frame holds it: the position
\* of the list iterator (for connection in self.active_connections), the
\* connection whose send_text is awaited, the clients whose send_text
\* raised so far, the rank of the awaited send_text call among all calls,
\* and the message (its index in events).
NoCast ==
    [idx |-> 0, conn |-> "", disconnected |-> <<>>, ticket |-> 0, event |-> 0]

Range(f) == {f[k] : k \in DOMAIN f}

\* connection.send_text(json_message) is called: the frame is written to
\* the client's socket, unless the socket is gone.
send_text(box, conn, message) ==
    IF conn \in broken THEN box
    ELSE [box EXCEPT ![conn] = Append(@, message)]

\* broadcast from its call to its first await (lines 38-47), over the
\* connection list conns. Every specification keeps a client connected,
\* so the early return of line 39 is never taken.
FirstSend(conns, event) ==
    [idx |-> 1, conn |-> conns[1], disconnected |-> <<>>,
     ticket |-> send_calls + 1, event |-> event]

\* The task tk calls broadcast and is suspended in it, at stage pc.
Casting(tk, pc, conns) ==
    [tk EXCEPT !.pc = pc, !.cast = FirstSend(conns, Len(events) + 1)]

\* The message is handed to broadcast and sent to the first connection.
Publish(conns, message) ==
    /\ events' = Append(events, message)
    /\ inbox' = send_text(inbox, conns[1], message)
    /\ send_calls' = send_calls + 1

NoPublish == UNCHANGED <<events, inbox, send_calls>>

\* The awaited send_text returns or raises (lines 47-49): the list
\* disconnected afterwards.
Failed(cast) ==
    IF cast.conn \in broken THEN Append(cast.disconnected, cast.conn)
    ELSE cast.disconnected

\* The iterator has no further connection: the loop of line 45 ends.
LastSend(tk) == tk.cast.idx >= Len(active_connections)

\* Lines 52-53: self.disconnect of every client that raised.
Pruned(cast) ==
    SelectSeq(active_connections, LAMBDA c : c \notin Range(Failed(cast)))

\* ---------------------------------------------------- ChunkProcessor
\* A task is one coroutine created by upload_chunk: the chunk it is
\* working on, where it is suspended, and how many process_chunk frames
\* lie under the running one (process_chunk -> _process_buffered_chunks
\* -> process_chunk ...). chunk_path is chunks/chunk_<seq><extension>.
ChunkPath(seq, ext) == [seq |-> seq, ext |-> ext]

NewTask(sid, seq, path) ==
    [sid |-> sid, seq |-> seq, path |-> path, pc |-> "start", depth |-> 0,
     cast |-> NoCast]

\* What a run of the coroutine up to its next suspension leaves: the
\* store, the task, and the sequence number it admitted into the
\* pipeline (-1: none).
Outcome(S, tk, entered) == [S |-> S, task |-> tk, entered |-> entered]

RECURSIVE process_chunk(_, _), process_buffered_chunks(_, _), Return(_, _)

\* process_chunk with the future chunk dropped instead of buffered.
process_chunk_drops_future(S, tk) ==
    IF tk.seq # get_expected_seq(S, tk.sid) THEN Return(S, tk)
    ELSE Outcome(S, [tk EXCEPT !.pc = "convert"], tk.seq)

\* process_chunk with the duplicate test left out: whatever is not the
\* expected chunk is buffered.
process_chunk_buffers_stale(S, tk) ==
    IF tk.seq # get_expected_seq(S, tk.sid)
    THEN Return(buffer_future_chunk(S, tk.sid, tk.seq, tk.path), tk)
    ELSE Outcome(S, [tk EXCEPT !.pc = "convert"], tk.seq)

\* process_chunk, from its call to the await of _convert_to_wav
\* (lines 36-53) or to its return.
process_chunk(S, tk) ==
    LET expected_seq == get_expected_seq(S, tk.sid)
    IN  IF tk.seq < expected_seq THEN Return(S, tk)
        ELSE IF tk.seq > expected_seq
        THEN Return(buffer_future_chunk(S, tk.sid, tk.seq, tk.path), tk)
        ELSE Outcome(S, [tk EXCEPT !.pc = "convert"], tk.seq)

\* The drain loop with remove_buffered_chunk left out.
process_buffered_chunks_keeps(S, tk) ==
    LET expected_seq == get_expected_seq(S, tk.sid)
    IN  IF has_buffered_chunk(S, tk.sid, expected_seq)
        THEN process_chunk(S,
                 [tk EXCEPT !.seq = expected_seq,
                            !.path = S[tk.sid].buffered_chunks[expected_seq],
                            !.depth = @ + 1])
        ELSE Return(S, tk)

\* One turn of the while loop of _process_buffered_chunks, run by the
\* process_chunk frame at tk.depth.
process_buffered_chunks(S, tk) ==
    LET expected_seq == get_expected_seq(S, tk.sid)
    IN  IF has_buffered_chunk(S, tk.sid, expected_seq)
        THEN process_chunk(
                 remove_buffered_chunk(S, tk.sid, expected_seq),
                 [tk EXCEPT !.seq = expected_seq,
                            !.path = S[tk.sid].buffered_chunks[expected_seq],
                            !.depth = @ + 1])
        ELSE Return(S, tk)

\* process_chunk returns: the task ends, or the caller's drain loop
\* takes its next turn.
Return(S, tk) ==
    IF tk.depth = 0 THEN Outcome(S, [tk EXCEPT !.pc = "done"], -1)
    ELSE process_buffered_chunks(S, [tk EXCEPT !.depth = @ - 1])

\* Lines 76-80 with the drain left out.
Advance_no_drain(S, tk) == Return(increment_expected_seq(S, tk.sid), tk)

\* Lines 76-80 with expected_seq assigned from the chunk just processed
\* instead of incremented.
Advance_assigns(S, tk) ==
    process_buffered_chunks(
        IF tk.sid \in DOMAIN S
        THEN [S EXCEPT ![tk.sid].expected_seq = tk.seq + 1] ELSE S,
        tk)

\* Lines 76-80: increment expected_seq, then drain.
Advance(S, tk) ==
    process_buffered_chunks(increment_expected_seq(S, tk.sid), tk)

\* The task list and the admission history after task i ran to outcome r.
RemoveAt(seq, i) == SubSeq(seq, 1, i - 1) \o SubSeq(seq, i + 1, Len(seq))

Settle(i, r) ==
    /\ sessions' = r.S
    /\ tasks' = IF r.task.pc = "done" THEN RemoveAt(tasks, i)
                ELSE [tasks EXCEPT ![i] = r.task]
    /\ admitted' = IF r.entered < 0 THEN admitted
                   ELSE [admitted EXCEPT ![r.task.sid][r.entered] = @ + 1]

\* ----------------------------------------------------------- actions
\* What the last call of should_generate_summary saw and returned.
NoDecision ==
    [evaluated |-> FALSE, word_count |-> 0, elapsed |-> 0, result |-> FALSE]

\* The server after start-up, one client (the dashboard) connected to /ws.
Init ==
    /\ sessions = [x \in {} |-> NewSession(0)]
    /\ recognizers = {}
    /\ tasks = <<>>
    /\ events = <<>>
    /\ active_connections = <<"W1">>
    /\ inbox = [c \in Subscribers |-> <<>>]
    /\ broken = {}
    /\ send_calls = 0
    /\ summarize_calls = [x \in SessionIds |-> 0]
    /\ rejected = 0
    /\ now = 0
    /\ conv_ok \in [Seqs -> BOOLEAN]
    /\ speech \in [Seqs -> SpeechChoices]
    /\ \A s \in Seqs : conv_ok[s] \/ speech[s] = 0
    /\ arrivals = [x \in SessionIds |-> <<>>]
    /\ admitted = [x \in SessionIds |-> [s \in Seqs |-> 0]]
    /\ creates = [x \in SessionIds |-> 0]
    /\ ends = 0
    /\ decision = NoDecision

\* How often seq was delivered to process_chunk for sid.
Delivered(sid, seq) ==
    Cardinality({k \in 1..Len(arrivals[sid]) : arrivals[sid][k] = seq})

SumOver(f, D) ==
    LET RECURSIVE Sum(_)
        Sum(E) == IF E = {} THEN 0
                  ELSE LET d == CHOOSE d \in E : TRUE
                       IN  f[d] + Sum(E \ {d})
    IN  Sum(D)

Uploads == SumOver([x \in SessionIds |-> Len(arrivals[x])], SessionIds)

\* What datetime.now() may return: the time last read, or one summary
\* interval later.
ClockReadings ==
    {now} \cup {t \in {now + SUMMARY_TIME_INTERVAL} :
                   t <= MaxTicks * SUMMARY_TIME_INTERVAL}

\* POST /session/create: a new id, or an id that exists (overwritten).
CreateSession(sid) ==
    /\ \E t \in ClockReadings :
           /\ now' = t
           /\ sessions' = create_session(sessions, sid, t)
    /\ creates' = [creates EXCEPT ![sid] = @ + 1]
    /\ UNCHANGED <<recognizers, tasks, events, conv_ok, speech,
                   arrivals, admitted, ends, decision, wire, calls>>

\* POST /session/{id}/upload: save_chunk, then create_task(process_chunk).
\* (save_chunk raises when the session directory is missing.)
UploadChunk(sid, seq, ext) ==
    /\ Uploads < MaxUploads
    /\ sid \in DOMAIN sessions
    /\ sessions' = save_chunk(sessions, sid)
    /\ tasks' = Append(tasks, NewTask(sid, seq, ChunkPath(seq, ext)))
    /\ arrivals' = [arrivals EXCEPT ![sid] = Append(@, seq)]
    /\ UNCHANGED <<recognizers, events, now, conv_ok, speech, admitted,
                   creates, ends, decision, wire, calls>>

\* POST /session/{id}/upload for an id without a session directory:
\* write_bytes raises inside save_chunk (storage.py:53) and upload_chunk
\* answers with status 500 (main.py:176-177).
UploadRejected(sid, seq, ext) ==
    /\ sid \notin DOMAIN sessions
    /\ rejected' = rejected + 1
    /\ UNCHANGED <<sessions, recognizers, tasks, events, now, conv_ok, speech,
                   arrivals, admitted, creates, ends, decision, wire,
                   summarize_calls>>

\* The event loop runs a new task's first step; tasks start in the order
\* they were created.
Start(i) ==
    /\ i \in 1..Len(tasks)
    /\ tasks[i].pc = "start"
    /\ \A j \in 1..(i - 1) : tasks[j].pc # "start"
    /\ Settle(i, process_chunk(sessions, tasks[i]))
    /\ UNCHANGED <<recognizers, events, now, conv_ok, speech, arrivals,
                   creates, ends, decision, wire, calls>>

\* ConvertDone with an empty recognition treated as a failed conversion:
\* a return in place of lines 76-80.
ConvertDone_silence_returns(i) ==
    /\ i \in 1..Len(tasks)
    /\ tasks[i].pc = "convert"
    /\ LET tk == tasks[i]
           text == TextOf(tk.seq)
       IN  IF ~conv_ok[tk.seq]
           THEN /\ Settle(i, Return(sessions, tk))
                /\ UNCHANGED recognizers
                /\ NoPublish
           ELSE /\ recognizers' = recognizers \cup {tk.sid}
                /\ IF text.words > 0
                   THEN LET S1 == update_transcript(sessions, tk.sid, text)
                        IN  /\ Settle(i, Outcome(S1,
                                   Casting(tk, "transcript_update",
                                           active_connections), -1))
                            /\ Publish(active_connections,
                                   TranscriptUpdate(S1, tk.sid, text))
                   ELSE /\ Settle(i, Return(sessions, tk))
                        /\ NoPublish
    /\ UNCHANGED <<now, conv_ok, speech, arrivals, creates, ends, decision,
                   active_connections, broken, calls>>

\* ConvertDone without the return of lines 55-56: a chunk whose conversion
\* failed is recognised from the uploaded file.
ConvertDone_transcribes_anyway(i) ==
    /\ i \in 1..Len(tasks)
    /\ tasks[i].pc = "convert"
    /\ LET tk == tasks[i]
           text == IF conv_ok[tk.seq] THEN TextOf(tk.seq)
                   ELSE [seq |-> tk.seq, words |-> 1]
       IN  /\ recognizers' = recognizers \cup {tk.sid}
           /\ IF text.words > 0
              THEN LET S1 == update_transcript(sessions, tk.sid, text)
                   IN  /\ Settle(i, Outcome(S1,
                              Casting(tk, "transcript_update",
                                      active_connections), -1))
                       /\ Publish(active_connections,
                              TranscriptUpdate(S1, tk.sid, text))
              ELSE /\ Settle(i, Advance(sessions, tk))
                   /\ NoPublish
    /\ UNCHANGED <<now, conv_ok, speech, arrivals, creates, ends, decision,
                   active_connections, broken, calls>>

\* ffmpeg has exited: lines 54-80 up to the next suspension.
ConvertDone(i) ==
    /\ i \in 1..Len(tasks)
    /\ tasks[i].pc = "convert"
    /\ LET tk == tasks[i]
           text == TextOf(tk.seq)
       IN  IF ~conv_ok[tk.seq]
           THEN /\ Settle(i, Return(sessions, tk))
                /\ UNCHANGED recognizers
                /\ NoPublish
           ELSE /\ recognizers' = recognizers \cup {tk.sid}
                /\ IF text.words > 0
                   THEN LET S1 == update_transcript(sessions, tk.sid, text)
                        IN  /\ Settle(i, Outcome(S1,
                                   Casting(tk, "transcript_update",
                                           active_connections), -1))
                            /\ Publish(active_connections,
                                   TranscriptUpdate(S1, tk.sid, text))
                   ELSE /\ Settle(i, Advance(sessions, tk))
                        /\ NoPublish
    /\ UNCHANGED <<now, conv_ok, speech, arrivals, creates, ends, decision,
                   active_connections, broken, calls>>

\* A send_text of a broadcast has returned or raised and the list has a
\* further connection: lines 45-49, up to the next send_text.
SendDone(i) ==
    /\ i \in 1..Len(tasks)
    /\ tasks[i].cast.idx > 0
    /\ ~LastSend(tasks[i])
    /\ LET cast == tasks[i].cast
           connection == active_connections[cast.idx + 1]
       IN  /\ tasks' = [tasks EXCEPT ![i].cast =
                           [idx |-> cast.idx + 1, conn |-> connection,
                            disconnected |-> Failed(cast),
                            ticket |-> send_calls + 1, event |-> cast.event]]
           /\ inbox' = send_text(inbox, connection, events[cast.event])
           /\ send_calls' = send_calls + 1
    /\ UNCHANGED <<sessions, recognizers, events, now, conv_ok, speech,
                   arrivals, admitted, creates, ends, decision,
                   active_connections, broken, calls>>

\* A client's connection is lost: send_text to it raises from now on, and
\* the receive_text its websocket_endpoint awaits will raise
\* WebSocketDisconnect.
Drop(c) ==
    /\ c \notin broken
    /\ broken' = broken \cup {c}
    /\ UNCHANGED <<sessions, recognizers, tasks, events, now, conv_ok, speech,
                   arrivals, admitted, creates, ends, decision,
                   active_connections, inbox, send_calls, calls>>

\* A client opens /ws: WebSocketManager.connect, after accept.
Connect(c) ==
    /\ c \notin Range(active_connections)
    /\ c \notin broken
    /\ active_connections' = Append(active_connections, c)
    /\ UNCHANGED <<sessions, recognizers, tasks, events, now, conv_ok, speech,
                   arrivals, admitted, creates, ends, decision,
                   inbox, broken, send_calls, calls>>

\* websocket_endpoint catches WebSocketDisconnect: ws_manager.disconnect.
Disconnected(c) ==
    /\ c \in broken
    /\ c \in Range(active_connections)
    /\ active_connections' = SelectSeq(active_connections, LAMBDA x : x # c)
    /\ UNCHANGED <<sessions, recognizers, tasks, events, now, conv_ok, speech,
                   arrivals, admitted, creates, ends, decision,
                   inbox, broken, send_calls, calls>>

\* TranscriptSent in which a Summarize call without a result ends the
\* chunk's pipeline: a return in place of lines 76-80.
TranscriptSent_failure_returns(i) ==
    /\ i \in 1..Len(tasks)
    /\ tasks[i].pc = "transcript_update"
    /\ LastSend(tasks[i])
    /\ active_connections' = Pruned(tasks[i].cast)
    /\ \E t \in ClockReadings :
       LET tk == [tasks[i] EXCEPT !.cast = NoCast]
           transcript == get_transcript(sessions, tk.sid)
       IN  /\ now' = t
           /\ IF /\ should_generate_summary(sessions, tk.sid,
                        SUMMARY_WORD_THRESHOLD, SUMMARY_TIME_INTERVAL, t)
                 /\ SplitLen(transcript) >= MinSummaryWords
              THEN /\ summarize_calls' =
                          [summarize_calls EXCEPT ![tk.sid] = @ + 1]
                   /\ \E summary \in SummarizeResults(transcript) :
                      IF summary # NoSummary
                      THEN /\ Settle(i, Outcome(
                                  update_summary(sessions, tk.sid, summary, t),
                                  Casting(tk, "summary", active_connections'),
                                  -1))
                           /\ Publish(active_connections',
                                  SummaryEvent(tk.sid, summary))
                      ELSE /\ Settle(i, Return(sessions, tk))
                           /\ NoPublish
              ELSE /\ Settle(i, Advance(sessions, tk))
                   /\ NoPublish
                   /\ UNCHANGED summarize_calls
    /\ UNCHANGED <<recognizers, conv_ok, speech, arrivals, creates,
                   ends, decision, broken, rejected>>

\* The transcript_update broadcast has returned: the last send_text, the
\* pruning of lines 52-53, then lines 69-80 up to the next suspension, at
\* clock reading t.
TranscriptSent(i) ==
    /\ i \in 1..Len(tasks)
    /\ tasks[i].pc = "transcript_update"
    /\ LastSend(tasks[i])
    /\ active_connections' = Pruned(tasks[i].cast)
    /\ \E t \in ClockReadings :
       LET tk == [tasks[i] EXCEPT !.cast = NoCast]
           transcript == get_transcript(sessions, tk.sid)
       IN  /\ now' = t
           /\ IF /\ should_generate_summary(sessions, tk.sid,
                        SUMMARY_WORD_THRESHOLD, SUMMARY_TIME_INTERVAL, t)
                 /\ SplitLen(transcript) >= MinSummaryWords
              THEN /\ summarize_calls' =
                          [summarize_calls EXCEPT ![tk.sid] = @ + 1]
                   /\ \E summary \in SummarizeResults(transcript) :
                      IF summary # NoSummary
                      THEN /\ Settle(i, Outcome(
                                  update_summary(sessions, tk.sid, summary, t),
                                  Casting(tk, "summary", active_connections'),
                                  -1))
                           /\ Publish(active_connections',
                                  SummaryEvent(tk.sid, summary))
                      ELSE /\ Settle(i, Advance(sessions, tk))
                           /\ NoPublish
              ELSE /\ Settle(i, Advance(sessions, tk))
                   /\ NoPublish
                   /\ UNCHANGED summarize_calls
    /\ UNCHANGED <<recognizers, conv_ok, speech, arrivals, creates,
                   ends, decision, broken, rejected>>

\* The summary broadcast has returned: the last send_text, the pruning,
\* then lines 76-80.
SummarySent(i) ==
    /\ i \in 1..Len(tasks)
    /\ tasks[i].pc = "summary"
    /\ LastSend(tasks[i])
    /\ active_connections' = Pruned(tasks[i].cast)
    /\ Settle(i, Advance(sessions, [tasks[i] EXCEPT !.cast = NoCast]))
    /\ UNCHANGED <<recognizers, events, now, conv_ok, speech, arrivals,
                   creates, ends, decision, inbox, broken, send_calls, calls>>

\* ------------------------------------------------------- finalization
\* POST /session/{id}/end: finalize_session up to its first broadcast
\* (lines 186-200, or 186-213 when no final summary is made). The
\* recogniser, when the session has one, is flushed and dropped.
EndSession(sid) ==
    /\ \E w \in (IF sid \in recognizers THEN FlushChoices ELSE {0}),
          t \in ClockReadings :
       LET S1 == IF w > 0 THEN update_transcript(sessions, sid, FlushText(w))
                 ELSE sessions
           transcript == get_transcript(S1, sid)
           fin == NewTask(sid, -1, ChunkPath(-1, ""))
       IN  /\ now' = t
           /\ recognizers' = recognizers \ {sid}
           /\ IF SplitLen(transcript) >= MinFinalWords
              THEN /\ summarize_calls' =
                          [summarize_calls EXCEPT ![sid] = @ + 1]
                   /\ \E summary \in SummarizeResults(transcript) :
                      /\ sessions' = update_summary(S1, sid, summary, t)
                      /\ Publish(active_connections,
                                 SummaryEvent(sid, summary))
                      /\ tasks' = Append(tasks,
                             Casting(fin, "final_summary", active_connections))
              ELSE /\ sessions' = mark_session_ended(S1, sid)
                   /\ Publish(active_connections, SessionEnded(sessions', sid))
                   /\ tasks' = Append(tasks,
                          Casting(fin, "session_ended", active_connections))
                   /\ UNCHANGED summarize_calls
    /\ ends' = ends + 1
    /\ UNCHANGED <<conv_ok, speech, arrivals, admitted, creates, decision,
                   active_connections, broken, rejected>>

\* Lines 203-213 with the session_ended message sent before the session
\* is marked.
FinalSummarySent_unmarked(i) ==
    /\ i \in 1..Len(tasks)
    /\ tasks[i].pc = "final_summary"
    /\ LastSend(tasks[i])
    /\ active_connections' = Pruned(tasks[i].cast)
    /\ sessions' = sessions
    /\ Publish(active_connections', SessionEnded(sessions, tasks[i].sid))
    /\ tasks' = [tasks EXCEPT ![i] =
                    Casting(tasks[i], "session_ended", active_connections')]
    /\ UNCHANGED <<recognizers, now, conv_ok, speech, arrivals, admitted,
                   creates, ends, decision, broken, calls>>

\* The final summary's broadcast has returned: the last send_text, the
\* pruning, then lines 203-213.
FinalSummarySent(i) ==
    /\ i \in 1..Len(tasks)
    /\ tasks[i].pc = "final_summary"
    /\ LastSend(tasks[i])
    /\ active_connections' = Pruned(tasks[i].cast)
    /\ sessions' = mark_session_ended(sessions, tasks[i].sid)
    /\ Publish(active_connections', SessionEnded(sessions', tasks[i].sid))
    /\ tasks' = [tasks EXCEPT ![i] =
                    Casting(tasks[i], "session_ended", active_connections')]
    /\ UNCHANGED <<recognizers, now, conv_ok, speech, arrivals, admitted,
                   creates, ends, decision, broken, calls>>

\* The session_ended broadcast has returned: the last send_text, the
\* pruning, and end_session answers.
SessionEndedSent(i) ==
    /\ i \in 1..Len(tasks)
    /\ tasks[i].pc = "session_ended"
    /\ LastSend(tasks[i])
    /\ active_connections' = Pruned(tasks[i].cast)
    /\ tasks' = RemoveAt(tasks, i)
    /\ UNCHANGED <<sessions, recognizers, events, now, conv_ok, speech,
                   arrivals, admitted, creates, ends, decision, inbox,
                   broken, send_calls, calls>>

\* ---------------------------------------------------- specifications
\* Ingestion: each session is created once, then chunks are uploaded in
\* any order, any of them again, and processed.
CreateOnce(sid) == sid \notin DOMAIN sessions /\ CreateSession(sid)

Next ==
    \/ \E sid \in Clients : CreateOnce(sid)
    \/ \E sid \in Clients, seq \in Seqs, ext \in Extensions :
           UploadChunk(sid, seq, ext)
    \/ \E i \in 1..MaxUploads : Start(i)
    \/ \E i \in 1..MaxUploads : ConvertDone(i)
    \/ \E i \in 1..MaxUploads : TranscriptSent(i)
    \/ \E i \in 1..MaxUploads : SummarySent(i)

Spec == Init /\ [][Next]_vars

\* The whole life of a session: created, created again under the same
\* id, fed with its first chunks and ended, in any order.
Requests == SumOver(creates, SessionIds) + Uploads + ends + rejected

LifeSeqs == {0, 1}

InitLife ==
    /\ Init
    /\ \A s \in Seqs \ LifeSeqs : ~conv_ok[s]

LifeCreate(sid) == Requests < MaxRequests /\ CreateSession(sid)

LifeUpload(sid, seq, ext) == Requests < MaxRequests /\ UploadChunk(sid, seq, ext)

LifeEnd(sid) == Requests < MaxRequests /\ EndSession(sid)

NextLife ==
    \/ \E sid \in Clients : LifeCreate(sid)
    \/ \E sid \in Clients, seq \in LifeSeqs, ext \in Extensions :
           LifeUpload(sid, seq, ext)
    \/ \E sid \in Clients : LifeEnd(sid)
    \/ \E i \in 1..MaxRequests : Start(i)
    \/ \E i \in 1..MaxRequests : ConvertDone(i)
    \/ \E i \in 1..MaxRequests : TranscriptSent(i)
    \/ \E i \in 1..MaxRequests : SummarySent(i)
    \/ \E i \in 1..MaxRequests : FinalSummarySent(i)
    \/ \E i \in 1..MaxRequests : SessionEndedSent(i)

SpecLife == InitLife /\ [][NextLife]_vars

\* The summary policy on its own: a fresh session, or one whose first
\* chunk, of any length up to MaxWords, has just been appended and whose
\* task waits for the transcript_update broadcast, evaluated as the clock
\* runs second by second.
InitPolicy ==
    /\ now = 0
    /\ active_connections = <<"W1">>
    /\ broken = {}
    /\ summarize_calls = [x \in SessionIds |-> 0]
    /\ rejected = 0
    /\ conv_ok = [s \in Seqs |-> TRUE]
    /\ \E w \in 0..MaxWords :
           /\ speech = [s \in Seqs |-> w]
           /\ LET S0 == create_session([x \in {} |-> NewSession(0)], "S1", 0)
                  S1 == update_transcript(save_chunk(S0, "S1"), "S1",
                                          [seq |-> 0, words |-> w])
                  tk == NewTask("S1", 0, ChunkPath(0, ".webm"))
                  message == TranscriptUpdate(S1, "S1", [seq |-> 0, words |-> w])
              IN  IF w = 0
                  THEN /\ sessions = S0
                       /\ recognizers = {}
                       /\ tasks = <<>>
                       /\ events = <<>>
                       /\ inbox = [c \in Subscribers |-> <<>>]
                       /\ send_calls = 0
                       /\ arrivals = [x \in SessionIds |-> <<>>]
                       /\ admitted = [x \in SessionIds |-> [s \in Seqs |-> 0]]
                  ELSE /\ sessions = S1
                       /\ recognizers = {"S1"}
                       /\ tasks = <<[tk EXCEPT
                                       !.pc = "transcript_update",
                                       !.cast = [idx |-> 1, conn |-> "W1",
                                                 disconnected |-> <<>>,
                                                 ticket |-> 1, event |-> 1]]>>
                       /\ events = <<message>>
                       /\ inbox = [c \in Subscribers |->
                                     IF c = "W1" THEN <<message>> ELSE <<>>]
                       /\ send_calls = 1
                       /\ arrivals = [x \in SessionIds |->
                                        IF x = "S1" THEN <<0>> ELSE <<>>]
                       /\ admitted = [x \in SessionIds |-> [s \in Seqs |->
                                        IF x = "S1" /\ s = 0 THEN 1 ELSE 0]]
    /\ creates = [x \in SessionIds |-> IF x = "S1" THEN 1 ELSE 0]
    /\ ends = 0
    /\ decision = NoDecision

\* A second passes.
Second ==
    /\ now < MaxElapsed
    /\ now' = now + 1
    /\ UNCHANGED <<sessions, recognizers, tasks, events, conv_ok, speech,
                   arrivals, admitted, creates, ends, decision, wire, calls>>

\* should_generate_summary is called (workers.py line 69).
Evaluate(sid) ==
    /\ sid \in DOMAIN sessions
    /\ decision' =
           [evaluated |-> TRUE,
            word_count |-> sessions[sid].word_count,
            elapsed |-> now - sessions[sid].last_summary_time,
            result |-> should_generate_summary(sessions, sid,
                           SUMMARY_WORD_THRESHOLD, SUMMARY_TIME_INTERVAL, now)]
    /\ UNCHANGED <<sessions, recognizers, tasks, events, now, conv_ok, speech,
                   arrivals, admitted, creates, ends, wire, calls>>

NextPolicy ==
    \/ Second
    \/ \E sid \in Clients : Evaluate(sid)

SpecPolicy == InitPolicy /\ [][NextPolicy]_vars

\* Finalization on its own: session S1 has had its first chunk, of any
\* length up to MaxSpoken words, processed to the end and is then ended,
\* once or again.
InitFinal ==
    /\ now = 0
    /\ active_connections = <<"W1">>
    /\ broken = {}
    /\ summarize_calls = [x \in SessionIds |-> 0]
    /\ rejected = 0
    /\ conv_ok = [s \in Seqs |-> TRUE]
    /\ recognizers = {"S1"}
    /\ tasks = <<>>
    /\ arrivals = [x \in SessionIds |-> IF x = "S1" THEN <<0>> ELSE <<>>]
    /\ admitted = [x \in SessionIds |-> [s \in Seqs |->
                      IF x = "S1" /\ s = 0 THEN 1 ELSE 0]]
    /\ creates = [x \in SessionIds |-> IF x = "S1" THEN 1 ELSE 0]
    /\ ends = 0
    /\ decision = NoDecision
    /\ \E w \in 0..MaxSpoken :
           LET text == [seq |-> 0, words |-> w]
               S0 == save_chunk(
                         create_session([x \in {} |-> NewSession(0)], "S1", 0),
                         "S1")
               S1 == IF w > 0 THEN update_transcript(S0, "S1", text) ELSE S0
               message == TranscriptUpdate(S1, "S1", text)
           IN  /\ speech = [s \in Seqs |-> IF s = 0 THEN w ELSE 0]
               /\ sessions = increment_expected_seq(S1, "S1")
               /\ events = IF w > 0 THEN <<message>> ELSE <<>>
               /\ inbox = [c \in Subscribers |->
                             IF c = "W1" /\ w > 0 THEN <<message>> ELSE <<>>]
               /\ send_calls = IF w > 0 THEN 1 ELSE 0

NextFinal ==
    \/ \E sid \in Clients : LifeEnd(sid)
    \/ \E i \in 1..MaxRequests : FinalSummarySent(i)
    \/ \E i \in 1..MaxRequests : SessionEndedSent(i)

SpecFinal == InitFinal /\ [][NextFinal]_vars

\* A step of a finalize_session coroutine. The event loop resumes a
\* coroutine whose await has completed; that every awaited send_text
\* returns or raises is taken of the clients.
FinalizeStep ==
    \E i \in 1..MaxRequests : FinalSummarySent(i) \/ SessionEndedSent(i)

SpecFinalFair == SpecFinal /\ WF_vars(FinalizeStep)

\* The fan-out: three clients are connected, of which W1 may be lost at
\* any moment; sessions S1 and S2 exist and each is sent its first chunk,
\* 120 words of speech. The send_text calls on one socket complete in the
\* order they were made.
Flaky == {"W1"}

InitCast ==
    /\ sessions = create_session(
                      create_session([x \in {} |-> NewSession(0)], "S1", 0),
                      "S2", 0)
    /\ recognizers = {}
    /\ tasks = <<>>
    /\ events = <<>>
    /\ active_connections = <<"W1", "W2", "W3">>
    /\ inbox = [c \in Subscribers |-> <<>>]
    /\ broken = {}
    /\ send_calls = 0
    /\ summarize_calls = [x \in SessionIds |-> 0]
    /\ rejected = 0
    /\ now = 0
    /\ conv_ok = [s \in Seqs |-> TRUE]
    /\ speech = [s \in Seqs |-> IF s = 0 THEN 120 ELSE 0]
    /\ arrivals = [x \in SessionIds |-> <<>>]
    /\ admitted = [x \in SessionIds |-> [s \in Seqs |-> 0]]
    /\ creates = [x \in SessionIds |-> 1]
    /\ ends = 0
    /\ decision = NoDecision

\* The awaited send_text of task i is the oldest pending one on its socket.
InOrder(i) ==
    /\ i \in 1..Len(tasks)
    /\ \A j \in 1..Len(tasks) :
        (/\ j # i
         /\ tasks[j].cast.idx > 0
         /\ tasks[j].cast.conn = tasks[i].cast.conn)
            => tasks[j].cast.ticket > tasks[i].cast.ticket

CastUpload(sid) ==
    /\ Delivered(sid, 0) = 0
    /\ UploadChunk(sid, 0, ".webm")

CastSendDone(i) == InOrder(i) /\ SendDone(i)

CastTranscriptSent(i) == InOrder(i) /\ TranscriptSent(i)

CastSummarySent(i) == InOrder(i) /\ SummarySent(i)

NextCast ==
    \/ \E sid \in SessionIds : CastUpload(sid)
    \/ \E c \in Flaky : Drop(c)
    \/ \E c \in Flaky : Disconnected(c)
    \/ \E i \in 1..MaxUploads : Start(i)
    \/ \E i \in 1..MaxUploads : ConvertDone(i)
    \/ \E i \in 1..MaxUploads : CastSendDone(i)
    \/ \E i \in 1..MaxUploads : CastTranscriptSent(i)
    \/ \E i \in 1..MaxUploads : CastSummarySent(i)

SpecCast == InitCast /\ [][NextCast]_vars

\* Requests that name a session that does not exist: S1 is created at
\* most once, sent its first chunk, perhaps too early, and ended, perhaps
\* too early; S2 is never created.
LifeReject(sid, seq, ext) ==
    Requests < MaxRequests /\ UploadRejected(sid, seq, ext)

LifeCreateOnce(sid) == Requests < MaxRequests /\ CreateOnce(sid)

NextUnknown ==
    \/ \E sid \in Clients : LifeCreateOnce(sid)
    \/ \E sid \in Clients, ext \in Extensions : LifeUpload(sid, 0, ext)
    \/ \E sid \in SessionIds, ext \in Extensions : LifeReject(sid, 0, ext)
    \/ \E sid \in SessionIds : LifeEnd(sid)
    \/ \E i \in 1..MaxRequests : Start(i)
    \/ \E i \in 1..MaxRequests : ConvertDone(i)
    \/ \E i \in 1..MaxRequests : TranscriptSent(i)
    \/ \E i \in 1..MaxRequests : SummarySent(i)
    \/ \E i \in 1..MaxRequests : FinalSummarySent(i)
    \/ \E i \in 1..MaxRequests : SessionEndedSent(i)

SpecUnknown == InitLife /\ [][NextUnknown]_vars

\* Re-sent chunks: the session is created once and its first chunks are
\* uploaded in any order, any of them again and in another format, which
\* gives the re-sent chunk another path.
BufferUpload(sid, seq, ext) == UploadChunk(sid, seq, ext)

NextBuffer ==
    \/ \E sid \in Clients : CreateOnce(sid)
    \/ \E sid \in Clients, seq \in LifeSeqs, ext \in Formats :
           BufferUpload(sid, seq, ext)
    \/ \E i \in 1..MaxUploads : Start(i)
    \/ \E i \in 1..MaxUploads : ConvertDone(i)
    \/ \E i \in 1..MaxUploads : TranscriptSent(i)
    \/ \E i \in 1..MaxUploads : SummarySent(i)

SpecBuffer == InitLife /\ [][NextBuffer]_vars

\* Two sessions side by side: S1 and S2 exist, each is sent its first
\* two chunks, 120 words of speech each, once and in any order, and ended
\* once, at any moment, up to MaxUploads requests in all.
InitPair ==
    /\ sessions = create_session(
                      create_session([x \in {} |-> NewSession(0)], "S1", 0),
                      "S2", 0)
    /\ recognizers = {}
    /\ tasks = <<>>
    /\ events = <<>>
    /\ active_connections = <<"W1">>
    /\ inbox = [c \in Subscribers |-> <<>>]
    /\ broken = {}
    /\ send_calls = 0
    /\ summarize_calls = [x \in SessionIds |-> 0]
    /\ rejected = 0
    /\ now = 0
    /\ conv_ok = [s \in Seqs |-> s \in LifeSeqs]
    /\ speech = [s \in Seqs |-> IF s \in LifeSeqs THEN 120 ELSE 0]
    /\ arrivals = [x \in SessionIds |-> <<>>]
    /\ admitted = [x \in SessionIds |-> [s \in Seqs |-> 0]]
    /\ creates = [x \in SessionIds |-> 1]
    /\ ends = 0
    /\ decision = NoDecision

PairUpload(sid, seq, ext) ==
    /\ Uploads + ends < MaxUploads
    /\ Delivered(sid, seq) = 0
    /\ UploadChunk(sid, seq, ext)

PairEnd(sid) ==
    /\ Uploads + ends < MaxUploads
    /\ sessions[sid].status = "active"
    /\ \A i \in 1..Len(tasks) : tasks[i].sid = sid => tasks[i].seq >= 0
    /\ EndSession(sid)

\* The next step of coroutine i.
TaskStep(i) ==
    \/ Start(i)
    \/ ConvertDone(i)
    \/ TranscriptSent(i)
    \/ SummarySent(i)
    \/ FinalSummarySent(i)
    \/ SessionEndedSent(i)

NextPair ==
    \/ \E sid \in SessionIds, seq \in LifeSeqs, ext \in Extensions :
           PairUpload(sid, seq, ext)
    \/ \E sid \in SessionIds : PairEnd(sid)
    \/ \E i \in 1..MaxUploads : Start(i)
    \/ \E i \in 1..MaxUploads : ConvertDone(i)
    \/ \E i \in 1..MaxUploads : TranscriptSent(i)
    \/ \E i \in 1..MaxUploads : SummarySent(i)
    \/ \E i \in 1..MaxUploads : FinalSummarySent(i)
    \/ \E i \in 1..MaxUploads : SessionEndedSent(i)

SpecPair == InitPair /\ [][NextPair]_vars

\* The fan-out with a late comer: W1, which may be lost at any moment,
\* and W2 are connected from the start and W3 connects at any moment;
\* the rest is as in SpecCast.
Stayers == {"W2"}

LateComers == {"W3"}

InitJoin ==
    /\ sessions = create_session(
                      create_session([x \in {} |-> NewSession(0)], "S1", 0),
                      "S2", 0)
    /\ recognizers = {}
    /\ tasks = <<>>
    /\ events = <<>>
    /\ active_connections = <<"W1", "W2">>
    /\ inbox = [c \in Subscribers |-> <<>>]
    /\ broken = {}
    /\ send_calls = 0
    /\ summarize_calls = [x \in SessionIds |-> 0]
    /\ rejected = 0
    /\ now = 0
    /\ conv_ok = [s \in Seqs |-> TRUE]
    /\ speech = [s \in Seqs |-> IF s = 0 THEN 120 ELSE 0]
    /\ arrivals = [x \in SessionIds |-> <<>>]
    /\ admitted = [x \in SessionIds |-> [s \in Seqs |-> 0]]
    /\ creates = [x \in SessionIds |-> 1]
    /\ ends = 0
    /\ decision = NoDecision

NextJoin ==
    \/ \E sid \in SessionIds : CastUpload(sid)
    \/ \E c \in LateComers : Connect(c)
    \/ \E c \in Flaky : Drop(c)
    \/ \E c \in Flaky : Disconnected(c)
    \/ \E i \in 1..MaxUploads : Start(i)
    \/ \E i \in 1..MaxUploads : ConvertDone(i)
    \/ \E i \in 1..MaxUploads : CastSendDone(i)
    \/ \E i \in 1..MaxUploads : CastTranscriptSent(i)
    \/ \E i \in 1..MaxUploads : CastSummarySent(i)

SpecJoin == InitJoin /\ [][NextJoin]_vars

\* ------------------------------------------------------------ claims
\* No coroutine of sid is alive: every process_chunk pass has ended.
Quiescent(sid) == \A i \in 1..Len(tasks) : tasks[i].sid # sid

\* Exactly the chunks 0..n of sid arrived, each once.
EachOnce(sid, n) ==
    \A s \in Seqs : Delivered(sid, s) = (IF s <= n THEN 1 ELSE 0)

\* The transcript after chunks s..n are delivered one at a time, each run
\* to completion before the next arrives, the session expecting `expected`.
RECURSIVE InOrderTranscript(_, _, _, _)
InOrderTranscript(s, n, expected, transcript) ==
    IF s > n THEN transcript
    ELSE IF s = expected /\ conv_ok[s]
    THEN InOrderTranscript(s + 1, n, expected + 1,
             IF speech[s] > 0 THEN transcript \o <<Space, TextOf(s)>>
             ELSE transcript)
    ELSE InOrderTranscript(s + 1, n, expected, transcript)

\* C1: when chunks 0..n of a session have each been delivered once, in
\* whatever order and however the process_chunk tasks interleaved, and
\* all tasks have finished, the transcript is the one in-order delivery
\* gives.
C1_OrderIndependent ==
    \A sid \in Clients, n \in Seqs :
        (sid \in DOMAIN sessions /\ Quiescent(sid) /\ EachOnce(sid, n))
            => sessions[sid].transcript = InOrderTranscript(0, n, 0, <<>>)

\* Chunks 0..MaxSeq arrived last-first, all were admitted and the
\* transcript holds a span of each.
C1_Witness ==
    /\ "S1" \in DOMAIN sessions
    /\ Quiescent("S1")
    /\ EachOnce("S1", MaxSeq)
    /\ \A k \in 1..(MaxSeq + 1) : arrivals["S1"][k] = MaxSeq + 1 - k
    /\ Len(sessions["S1"].transcript) = 2 * (MaxSeq + 1)

\* C2 (as claimed): no sequence number of a session enters the pipeline
\* (convert -> transcribe -> append) more than once.
C2_AdmittedOnce ==
    \A sid \in Clients, s \in Seqs : admitted[sid][s] <= 1

\* C3: when chunks 0..n each arrived once, every conversion succeeded and
\* all tasks have finished, expected_seq = n + 1 and nothing is buffered.
C3_AllDrained ==
    \A sid \in Clients, n \in Seqs :
        (/\ sid \in DOMAIN sessions
         /\ Quiescent(sid)
         /\ EachOnce(sid, n)
         /\ \A s \in 0..n : conv_ok[s])
            => /\ sessions[sid].expected_seq = n + 1
               /\ sessions[sid].buffered_chunks = EmptyBuffer

\* Chunk 0 arrived first, then the last chunk, which had to wait in the
\* buffer, then the rest; all are consumed.
C3_Witness ==
    /\ "S1" \in DOMAIN sessions
    /\ Quiescent("S1")
    /\ EachOnce("S1", MaxSeq)
    /\ arrivals["S1"][1] = 0
    /\ arrivals["S1"][2] = MaxSeq
    /\ \A s \in Seqs : conv_ok[s]
    /\ sessions["S1"].expected_seq = MaxSeq + 1

\* The fields claim C4 lists.
Sequenced(S, sid) ==
    <<S[sid].transcript, S[sid].word_count, S[sid].summary,
      S[sid].last_summary_time, S[sid].expected_seq, S[sid].buffered_chunks>>

\* C4: a chunk whose seq is below expected_seq leaves transcript,
\* word_count, summary, last_summary_time, expected_seq and
\* buffered_chunks as they were, both when it is uploaded and when its
\* process_chunk runs; process_chunk admits nothing into the pipeline,
\* touches no recogniser, broadcasts nothing and returns normally.
C4_StaleIgnored ==
    [][\A sid \in Clients :
          /\ \A seq \in Seqs, ext \in Extensions :
                (/\ UploadChunk(sid, seq, ext)
                 /\ seq < sessions[sid].expected_seq)
                    => /\ Sequenced(sessions', sid) = Sequenced(sessions, sid)
                       /\ events' = events
          /\ \A i \in 1..Len(tasks) :
                (/\ Start(i)
                 /\ tasks[i].sid = sid
                 /\ sid \in DOMAIN sessions
                 /\ tasks[i].seq < sessions[sid].expected_seq)
                    => /\ sessions' = sessions
                       /\ events' = events
                       /\ admitted' = admitted
                       /\ recognizers' = recognizers
                       /\ tasks' = RemoveAt(tasks, i)]_vars

\* Chunk 0 arrived twice; one delivery was admitted and processed, the
\* other found expected_seq = 1 and was dropped.
C4_Witness ==
    /\ "S1" \in DOMAIN sessions
    /\ Quiescent("S1")
    /\ arrivals["S1"] = <<0, 0>>
    /\ admitted["S1"][0] = 1
    /\ sessions["S1"].expected_seq = 1
    /\ Len(sessions["S1"].transcript) = 2

\* Task i takes a step that ends its pipeline pass: it was suspended in
\* the pipeline and is not suspended at a later stage of the same chunk.
PassEnds(i) ==
    /\ ConvertDone(i) \/ TranscriptSent(i) \/ SummarySent(i)
    /\ ~(/\ Len(tasks') = Len(tasks)
         /\ tasks'[i].pc \in {"transcript_update", "summary"})

\* C5 (as claimed): the step that ends the pipeline pass of an expected
\* chunk leaves expected_seq one higher, whatever the stages did.
C5_PassAdvances ==
    [][\A i \in 1..Len(tasks) :
          (PassEnds(i) /\ tasks[i].sid \in DOMAIN sessions)
              => sessions'[tasks[i].sid].expected_seq
                     = sessions[tasks[i].sid].expected_seq + 1]_vars

\* C6 (as claimed, at rest): once chunks 0..n have all been delivered at
\* least once and every task has run to its end, expected_seq = n + 1 and
\* the buffer is drained, conversions failing or not.
C6_NoStall ==
    \A sid \in Clients, n \in Seqs :
        (/\ sid \in DOMAIN sessions
         /\ Quiescent(sid)
         /\ \A s \in Seqs : (Delivered(sid, s) >= 1) <=> (s <= n))
            => /\ sessions[sid].expected_seq = n + 1
               /\ sessions[sid].buffered_chunks = EmptyBuffer

\* C7 (as claimed): no step lowers a session's expected_seq.
C7_Monotonic ==
    [][\A sid \in Clients :
          (sid \in DOMAIN sessions /\ sid \in DOMAIN sessions')
              => sessions'[sid].expected_seq >= sessions[sid].expected_seq]_vars

\* C7 (amended): create_session leaves expected_seq = 0, also for an id
\* that exists; no other step (upload, process_chunk, finalize) lowers it
\* or removes the session.
C7_MonotonicBetweenCreates ==
    [][\A sid \in Clients :
          /\ creates'[sid] # creates[sid]
                => sessions'[sid].expected_seq = 0
          /\ (creates'[sid] = creates[sid] /\ sid \in DOMAIN sessions)
                => /\ sid \in DOMAIN sessions'
                   /\ sessions'[sid].expected_seq
                          >= sessions[sid].expected_seq]_vars

\* Chunk 0 was admitted, converted and counted, the session was ended,
\* and a second create_session of the id has put expected_seq back to 0.
C7_Witness ==
    /\ "S1" \in DOMAIN sessions
    /\ creates["S1"] = 2
    /\ ends = 1
    /\ Quiescent("S1")
    /\ arrivals["S1"] = <<0>>
    /\ admitted["S1"][0] = 1
    /\ conv_ok[0]
    /\ sessions["S1"].expected_seq = 0

\* C8: when no task of a session is alive, every buffered key is above
\* expected_seq.
C8_BufferAhead ==
    \A sid \in Clients :
        (sid \in DOMAIN sessions /\ Quiescent(sid))
            => \A k \in DOMAIN sessions[sid].buffered_chunks :
                   k > sessions[sid].expected_seq

\* Chunk 0 was consumed, the last chunk waits in the buffer for the
\* chunks between, and nothing is running.
C8_Witness ==
    /\ "S1" \in DOMAIN sessions
    /\ Quiescent("S1")
    /\ sessions["S1"].expected_seq = 1
    /\ DOMAIN sessions["S1"].buffered_chunks = {MaxSeq}

\* Tasks of sid between their read of expected_seq and the end of their
\* drain: suspended inside the pipeline.
InSection(sid) ==
    {i \in 1..Len(tasks) :
        /\ tasks[i].sid = sid
        /\ tasks[i].pc \in {"convert", "transcript_update", "summary"}}

\* C9 (as claimed): at most one process_chunk pass of a session is inside
\* the sequencing and pipeline section.
C9_MutualExclusion ==
    \A sid \in Clients : Cardinality(InSection(sid)) <= 1

\* C10: should_generate_summary is true exactly when word_count >= W, or
\* the seconds since last_summary_time are >= T and word_count > 50
\* (W = 200, T = 30); so 200 words trigger at any elapsed time, and 60
\* words trigger from 30 s on and not before.
C10_Policy ==
    decision.evaluated =>
        /\ decision.result <=>
              \/ decision.word_count >= SUMMARY_WORD_THRESHOLD
              \/ /\ decision.elapsed >= SUMMARY_TIME_INTERVAL
                 /\ decision.word_count > 50
        /\ decision.word_count = 200 => decision.result
        /\ decision.word_count = 60 =>
              (decision.result <=> decision.elapsed >= 30)

\* 60 words at exactly 30 s: the time arm fires.
C10_Witness ==
    /\ decision.evaluated
    /\ decision.word_count = 60
    /\ decision.elapsed = 30
    /\ decision.result

\* Words of the stored transcript of sid.
Words(S, sid) == SplitLen(get_transcript(S, sid))

\* C11 (as claimed): finalize_session calls Summarize exactly once when
\* the transcript, the recogniser's flush text appended, has at least the
\* minimum number of words, and not at all below it, and no later step of
\* the finalization calls it; 5 words and a flush of 6 (11 in all) are
\* below the minimum: no call.
C11_ForcedSummary ==
    [][\A sid \in Clients :
          /\ (EndSession(sid) /\ sid \in DOMAIN sessions)
                => /\ summarize_calls'[sid] - summarize_calls[sid] =
                          (IF Words(sessions', sid) >= MinFinalWords
                           THEN 1 ELSE 0)
                   /\ (Words(sessions, sid) = 5 /\ Words(sessions', sid) = 11)
                          => summarize_calls'[sid] = summarize_calls[sid]
          /\ \A i \in 1..Len(tasks) :
                (FinalSummarySent(i) \/ SessionEndedSent(i))
                    => summarize_calls' = summarize_calls]_vars

\* C11 (amended): the minimum is 10 words. finalize_session calls
\* Summarize exactly once when the transcript with the flush text has 10
\* words or more, whatever should_generate_summary says, and not at all
\* below 10, and no later step of the finalization calls it; 5 words and
\* a flush of 6 (11 in all) get one call, 3 words and a flush of 6 none.
C11_ForcedSummaryFromTen ==
    [][\A sid \in Clients :
          /\ (EndSession(sid) /\ sid \in DOMAIN sessions)
                => /\ summarize_calls'[sid] - summarize_calls[sid] =
                          (IF Words(sessions', sid) >= 10 THEN 1 ELSE 0)
                   /\ (Words(sessions, sid) = 5 /\ Words(sessions', sid) = 11)
                          => summarize_calls'[sid] = summarize_calls[sid] + 1
                   /\ (Words(sessions, sid) = 3 /\ Words(sessions', sid) = 9)
                          => summarize_calls'[sid] = summarize_calls[sid]
          /\ \A i \in 1..Len(tasks) :
                (FinalSummarySent(i) \/ SessionEndedSent(i))
                    => summarize_calls' = summarize_calls]_vars

\* A session of 5 words was ended, the flush added 6, and Summarize was
\* called once although the summary policy was false (11 words, no time
\* elapsed); the finalization has run to its end.
C11_Witness ==
    /\ "S1" \in DOMAIN sessions
    /\ speech[0] = 5
    /\ ends = 1
    /\ tasks = <<>>
    /\ Words(sessions, "S1") = 11
    /\ summarize_calls["S1"] = 1
    /\ ~should_generate_summary(sessions, "S1", SUMMARY_WORD_THRESHOLD,
                                SUMMARY_TIME_INTERVAL, now)
    /\ sessions["S1"].status = "ended"

\* The finalize_session coroutines of sid that are at stage pc.
Finalizing(sid, pc) ==
    {i \in 1..Len(tasks) :
        tasks[i].sid = sid /\ tasks[i].seq = -1 /\ tasks[i].pc = pc}

\* The session_ended messages of sid handed to broadcast so far.
EndedEvents(sid) ==
    {k \in 1..Len(events) :
        events[k].type = "session_ended" /\ events[k].session_id = sid}

\* end_session requests that have been answered.
Answered == ends - Len(SelectSeq(tasks, LAMBDA tk : tk.seq = -1))

\* C12: every finalize_session call on an existing session (a) marks the
\* session ended and hands one session_ended message to broadcast in the
\* same step, the message carrying the transcript and the summary stored
\* then; (b) has published exactly one session_ended message (one per
\* call, none before the final summary's broadcast has returned);
\* (c) returns with status = ended; (d) does return, when every awaited
\* send_text returns. The flush may add text or not, Summarize may
\* return a summary or "".
C12_FinalizeEnds ==
    /\ [][\A sid \in Clients :
             (/\ Len(events') = Len(events) + 1
              /\ events'[Len(events')].type = "session_ended"
              /\ events'[Len(events')].session_id = sid)
                 => /\ sid \in DOMAIN sessions'
                    /\ sessions'[sid].status = "ended"
                    /\ events'[Len(events')].transcript
                           = sessions'[sid].transcript
                    /\ events'[Len(events')].summary
                           = sessions'[sid].summary]_vars
    /\ [](\A sid \in Clients :
             Cardinality(EndedEvents(sid))
                 = ends - Cardinality(Finalizing(sid, "final_summary")))
    /\ [][\A i \in 1..Len(tasks) :
             SessionEndedSent(i) =>
                 /\ sessions'[tasks[i].sid].status = "ended"
                 /\ Answered' = Answered + 1]_vars
    /\ \A k \in 1..MaxRequests : (ends >= k) ~> (Answered >= k)

\* A session of 4 words was ended, the flush added 6, the forced
\* Summarize returned "" (its failure), and the call has returned: the
\* session is ended and the one session_ended message carries the 10
\* words and the empty summary.
C12_Witness ==
    /\ "S1" \in DOMAIN sessions
    /\ speech[0] = 4
    /\ ends = 1
    /\ Answered = 1
    /\ summarize_calls["S1"] = 1
    /\ sessions["S1"].summary = NoSummary
    /\ sessions["S1"].status = "ended"
    /\ Cardinality(EndedEvents("S1")) = 1
    /\ events[Len(events)].type = "session_ended"
    /\ SplitLen(events[Len(events)].transcript) = 10
    /\ events[Len(events)].summary = NoSummary

\* C13 (as claimed): once a session's status is ended it is ended after
\* every step, create_session included.
C13_EndedForGood ==
    [][\A sid \in Clients :
          (sid \in DOMAIN sessions /\ sessions[sid].status = "ended")
              => (sid \in DOMAIN sessions'
                  /\ sessions'[sid].status = "ended")]_vars

\* C13 (amended): no upload, process_chunk or finalize step returns an
\* ended session to active or removes it; create_session of the id, ended
\* or not, leaves a record whose status is active.
C13_EndedUntilCreated ==
    [][\A sid \in Clients :
          /\ (/\ creates'[sid] = creates[sid]
              /\ sid \in DOMAIN sessions
              /\ sessions[sid].status = "ended")
                => (sid \in DOMAIN sessions'
                    /\ sessions'[sid].status = "ended")
          /\ creates'[sid] # creates[sid]
                => sessions'[sid].status = "active"]_vars

\* The session was ended while its transcript was empty (no forced
\* summary), a chunk uploaded after that was transcribed and appended,
\* and the status is still ended.
C13_Witness ==
    /\ "S1" \in DOMAIN sessions
    /\ creates["S1"] = 1
    /\ ends = 1
    /\ tasks = <<>>
    /\ summarize_calls["S1"] = 0
    /\ Words(sessions, "S1") = 120
    /\ sessions["S1"].status = "ended"

\* How often message occurs in the sequence q.
Count(q, message) == Cardinality({k \in 1..Len(q) : q[k] = message})

\* No broadcast is running.
NoCasts == \A i \in 1..Len(tasks) : tasks[i].cast.idx = 0

\* C14 (as claimed): when every broadcast has returned, each client whose
\* connection is sound has been sent every message handed to broadcast,
\* whichever other client failed meanwhile, and a client that failed on a
\* delivery is no longer in active_connections.
C14_Isolation ==
    NoCasts =>
        /\ \A c \in Subscribers \ broken :
               /\ Len(inbox[c]) = Len(events)
               /\ \A k \in 1..Len(events) :
                      Count(inbox[c], events[k]) = Count(events, events[k])
        /\ \A c \in broken :
               Len(inbox[c]) < Len(events)
                   => c \notin Range(active_connections)

\* q is p with elements left out.
RECURSIVE IsSubsequence(_, _)
IsSubsequence(q, p) ==
    IF q = <<>> THEN TRUE
    ELSE IF p = <<>> THEN FALSE
    ELSE IF q[1] = p[1] THEN IsSubsequence(Tail(q), Tail(p))
    ELSE IsSubsequence(q, Tail(p))

\* C15 (as claimed): every client receives the messages it receives in
\* the order in which they were handed to broadcast.
C15_FifoPerSubscriber ==
    \A c \in Subscribers : IsSubsequence(inbox[c], events)

\* The process_chunk tasks suspended in a send_text of a broadcast.
Delivering ==
    {i \in 1..Len(tasks) : tasks[i].seq >= 0 /\ tasks[i].cast.idx > 0}

\* C16 (as claimed): the fan-out lies outside the section that guards
\* expected_seq and buffered_chunks: while a process_chunk task waits for
\* a client to take a message, expected_seq has already moved past the
\* task's chunk, so a client that never takes it holds nothing up.
C16_FanOutOutside ==
    \A i \in Delivering :
        tasks[i].sid \in DOMAIN sessions
            => sessions[tasks[i].sid].expected_seq > tasks[i].seq

\* C17 (as claimed): an upload or an end request for an id that has no
\* session is answered with an error and changes nothing: no session
\* record, no recogniser, no task, no message handed to broadcast.
C17_UnknownRejected ==
    [][\A sid \in SessionIds :
          sid \notin DOMAIN sessions =>
              /\ \A seq \in Seqs, ext \in Extensions :
                    UploadRejected(sid, seq, ext)
                        => /\ rejected' = rejected + 1
                           /\ sessions' = sessions
                           /\ recognizers' = recognizers
                           /\ tasks' = tasks
                           /\ events' = events
              /\ EndSession(sid)
                    => /\ rejected' = rejected + 1
                       /\ sessions' = sessions
                       /\ recognizers' = recognizers
                       /\ tasks' = tasks
                       /\ events' = events]_vars

\* The fields claim C18 lists as unchanged.
Content(S, sid) ==
    <<S[sid].expected_seq, S[sid].transcript, S[sid].word_count,
      S[sid].summary, S[sid].last_summary_time>>

\* The buffer b with path written under key seq.
Written(b, seq, path) ==
    [k \in DOMAIN b \cup {seq} |-> IF k = seq THEN path ELSE b[k]]

C19_ConversionFailure ==
    [][\A i \in 1..Len(tasks) :
          (/\ ConvertDone(i)
           /\ ~conv_ok[tasks[i].seq])
              => /\ sessions' = sessions
                 /\ events' = events
                 /\ inbox' = inbox
                 /\ recognizers' = recognizers
                 /\ summarize_calls' = summarize_calls
                 /\ tasks' = RemoveAt(tasks, i)]_vars

\* Chunk 0 was transcribed, chunk 1 entered the pipeline and its
\* conversion failed: the transcript holds chunk 0 only and the only
\* events are those of chunk 0.
C19_Witness ==
    /\ "S1" \in DOMAIN sessions
    /\ creates["S1"] = 1
    /\ arrivals["S1"] = <<0, 1>>
    /\ conv_ok[0]
    /\ ~conv_ok[1]
    /\ admitted["S1"][1] = 1
    /\ tasks = <<>>
    /\ sessions["S1"].expected_seq = 1
    /\ sessions["S1"].transcript = <<Space, TextOf(0)>>
    /\ sessions["S1"].word_count = 120
    /\ \A k \in 1..Len(events) : events[k].text \in {TextOf(0), Space}
    /\ Len(events) >= 1

\* C20: when the recogniser returns no text for a converted chunk, the
\* step leaves transcript, word_count, summary and last_summary_time as
\* they were, publishes and sends nothing, neither evaluates the summary
\* trigger nor calls Summarize, and still advances expected_seq by 1 and
\* runs the drain: a chunk buffered under the new expected_seq leaves the
\* buffer and enters the pipeline in the same step, otherwise the
\* coroutine returns.
C20_EmptyRecognition ==
    [][\A i \in 1..Len(tasks) :
          LET sid == tasks[i].sid
              e == sessions[sid].expected_seq
              b == sessions[sid].buffered_chunks
          IN  (/\ ConvertDone(i)
               /\ sid \in DOMAIN sessions
               /\ conv_ok[tasks[i].seq]
               /\ speech[tasks[i].seq] = 0)
                  => /\ sessions'[sid].transcript = sessions[sid].transcript
                     /\ sessions'[sid].word_count = sessions[sid].word_count
                     /\ sessions'[sid].summary = sessions[sid].summary
                     /\ sessions'[sid].last_summary_time
                            = sessions[sid].last_summary_time
                     /\ events' = events
                     /\ inbox' = inbox
                     /\ summarize_calls' = summarize_calls
                     /\ decision' = decision
                     /\ sessions'[sid].expected_seq = e + 1
                     /\ IF e + 1 \in DOMAIN b
                        THEN /\ DOMAIN sessions'[sid].buffered_chunks
                                    = DOMAIN b \ {e + 1}
                             /\ admitted'[sid][e + 1] = admitted[sid][e + 1] + 1
                             /\ tasks' = [tasks EXCEPT ![i] =
                                    [@ EXCEPT !.seq = e + 1,
                                              !.path = b[e + 1],
                                              !.depth = @ + 1]]
                        ELSE /\ sessions'[sid].buffered_chunks = b
                             /\ admitted' = admitted
                             /\ tasks' = RemoveAt(tasks, i)]_vars

\* Chunk 2 was buffered, chunk 0 gave 120 words and a Summarize call that
\* returned nothing, and thirty seconds after the session's creation the
\* silent chunk 1 has been recognised: no second Summarize call although
\* the interval has elapsed, expected_seq is 2 and the drain has taken
\* chunk 2 into the pipeline.
C20_Witness ==
    /\ "S1" \in DOMAIN sessions
    /\ creates["S1"] = 1
    /\ arrivals["S1"] = <<2, 0, 1>>
    /\ conv_ok[1]
    /\ speech[1] = 0
    /\ admitted["S1"] = [s \in Seqs |-> 1]
    /\ sessions["S1"].expected_seq = 2
    /\ sessions["S1"].buffered_chunks = EmptyBuffer
    /\ sessions["S1"].word_count = 120
    /\ sessions["S1"].transcript = <<Space, TextOf(0)>>
    /\ now - sessions["S1"].last_summary_time >= SUMMARY_TIME_INTERVAL
    /\ summarize_calls["S1"] = 1
    /\ Len(events) = 1
    /\ Len(tasks) = 1
    /\ tasks[1].pc = "convert"
    /\ tasks[1].seq = 2
    /\ tasks[1].depth = 1

\* C21: the word arm of the trigger is a level. No step lowers a
\* session's word_count, a summary included, and every time the pipeline
\* of a chunk with recognised text comes to the trigger with word_count
\* at or above SUMMARY_WORD_THRESHOLD it calls Summarize once: a result
\* replaces summary, sets last_summary_time to the clock reading and is
\* published; no result leaves summary and last_summary_time as they were.
C21_LevelTrigger ==
    [][\A sid \in Clients :
          sid \in DOMAIN sessions =>
            /\ sessions'[sid].word_count >= sessions[sid].word_count
            /\ \A i \in 1..Len(tasks) :
                  (/\ TranscriptSent(i)
                   /\ tasks[i].sid = sid
                   /\ sessions[sid].word_count >= SUMMARY_WORD_THRESHOLD)
                      => /\ summarize_calls'[sid] = summarize_calls[sid] + 1
                         /\ \/ /\ sessions'[sid].summary
                                     = SummaryOf(sessions[sid].transcript)
                               /\ sessions'[sid].last_summary_time = now'
                               /\ events' = Append(events,
                                      SummaryEvent(sid, sessions'[sid].summary))
                            \/ /\ sessions'[sid].summary = sessions[sid].summary
                               /\ sessions'[sid].last_summary_time
                                      = sessions[sid].last_summary_time
                               /\ events' = events]_vars

\* Three chunks of 120 words in order: the threshold was crossed with
\* chunk 1, and chunks 1 and 2 each caused a Summarize call, the second
\* of which replaced the summary thirty seconds after the creation.
C21_Witness ==
    /\ "S1" \in DOMAIN sessions
    /\ arrivals["S1"] = <<0, 1, 2>>
    /\ sessions["S1"].word_count = 360
    /\ summarize_calls["S1"] = 2
    /\ sessions["S1"].summary = SummaryOf(sessions["S1"].transcript)
    /\ sessions["S1"].last_summary_time = SUMMARY_TIME_INTERVAL
    /\ \E k \in 1..Len(events) :
          events[k] = SummaryEvent("S1", sessions["S1"].summary)

\* Task i's step has incremented expected_seq of its session and run
\* the drain: a chunk buffered under the new expected_seq has left the
\* buffer and entered the pipeline, otherwise the coroutine has returned.
AdvancedAndDrained(i) ==
    LET sid == tasks[i].sid
        e == sessions[sid].expected_seq
        b == sessions[sid].buffered_chunks
    IN  /\ sessions'[sid].expected_seq = e + 1
        /\ IF e + 1 \in DOMAIN b
           THEN /\ DOMAIN sessions'[sid].buffered_chunks = DOMAIN b \ {e + 1}
                /\ admitted'[sid][e + 1] = admitted[sid][e + 1] + 1
                /\ tasks'[i].pc = "convert"
                /\ tasks'[i].seq = e + 1
                /\ tasks'[i].path = b[e + 1]
           ELSE /\ sessions'[sid].buffered_chunks = b
                /\ admitted' = admitted
                /\ tasks' = RemoveAt(tasks, i)

\* C22: in a step of the chunk pipeline that calls Summarize, either the
\* call gives a summary, which replaces the stored one, last_summary_time
\* becomes the clock reading and exactly one summary event carrying it is
\* published while the coroutine awaits its broadcast; or it gives none,
\* and then summary and last_summary_time are as they were, nothing is
\* published, and expected_seq is incremented and the drain run in the
\* same step. The transcript is unchanged either way.
C22_SummarizeOutcome ==
    [][\A i \in 1..Len(tasks) :
          LET sid == tasks[i].sid
          IN  (/\ TranscriptSent(i)
               /\ sid \in DOMAIN sessions
               /\ summarize_calls'[sid] = summarize_calls[sid] + 1)
                  => /\ sessions'[sid].transcript = sessions[sid].transcript
                     /\ sessions'[sid].word_count = sessions[sid].word_count
                     /\ \/ /\ sessions'[sid].summary
                                 = SummaryOf(sessions[sid].transcript)
                           /\ sessions'[sid].last_summary_time = now'
                           /\ events' = Append(events,
                                  SummaryEvent(sid, sessions'[sid].summary))
                           /\ tasks'[i].pc = "summary"
                        \/ /\ sessions'[sid].summary = sessions[sid].summary
                           /\ sessions'[sid].last_summary_time
                                  = sessions[sid].last_summary_time
                           /\ events' = events
                           /\ inbox' = inbox
                           /\ AdvancedAndDrained(i)]_vars

\* Three chunks of 120 words, all processed: Summarize was called for
\* chunk 1 without a result and for chunk 2 with one, so that there is one
\* summary event, and expected_seq has advanced past all three.
C22_Witness ==
    /\ "S1" \in DOMAIN sessions
    /\ arrivals["S1"] = <<0, 1, 2>>
    /\ now = 0
    /\ tasks = <<>>
    /\ sessions["S1"].expected_seq = 3
    /\ summarize_calls["S1"] = 2
    /\ sessions["S1"].summary = <<360>>
    /\ Cardinality({k \in 1..Len(events) : events[k].type = "summary"}) = 1

\* C23: in every state a request handler or coroutine can run in, that
\* is between two suspensions of the event loop's coroutines, every
\* session's word_count is the number of whitespace-separated words of
\* its transcript.
C23_WordCountOfTranscript ==
    \A sid \in DOMAIN sessions :
        sessions[sid].word_count = SplitLen(sessions[sid].transcript)

\* A chunk of 120 words was appended by its pipeline and 6 more by the
\* recogniser's final result at the session's end.
C23_Witness ==
    /\ "S1" \in DOMAIN sessions
    /\ sessions["S1"].transcript = <<Space, TextOf(0), Space, FlushText(6)>>
    /\ sessions["S1"].word_count = 126
    /\ sessions["S1"].status = "ended"

\* s is a prefix of t.
IsPrefix(s, t) == Len(s) <= Len(t) /\ SubSeq(t, 1, Len(s)) = s

\* C24 (as claimed): in every step, the transcript an existing session
\* had is a prefix of the transcript it has afterwards.
C24_AppendOnly ==
    [][\A sid \in Clients :
          (sid \in DOMAIN sessions /\ sid \in DOMAIN sessions')
              => IsPrefix(sessions[sid].transcript,
                          sessions'[sid].transcript)]_vars

\* C24 (amended): create_session leaves the transcript empty, also for an
\* id that exists; in every other step (upload, process_chunk, finalize)
\* the session remains and its old transcript is a prefix of the new one.
C24_AppendOnlyBetweenCreates ==
    [][\A sid \in Clients :
          /\ creates'[sid] # creates[sid]
                => sessions'[sid].transcript = <<>>
          /\ (creates'[sid] = creates[sid] /\ sid \in DOMAIN sessions)
                => /\ sid \in DOMAIN sessions'
                   /\ IsPrefix(sessions[sid].transcript,
                               sessions'[sid].transcript)]_vars

\* Chunk 0 was transcribed to 120 words by a coroutine that has returned,
\* and a second create_session of the id has emptied the transcript.
C24_Witness ==
    /\ "S1" \in DOMAIN sessions
    /\ creates["S1"] = 2
    /\ ends = 0
    /\ tasks = <<>>
    /\ arrivals["S1"] = <<0>>
    /\ admitted["S1"][0] = 1
    /\ conv_ok[0]
    /\ speech[0] = 120
    /\ sessions["S1"].transcript = <<>>
    /\ sessions["S1"].word_count = 0

\* What claim C25 lists of session sid: the fields of its record and
\* whether the transcriber holds a recogniser for it.
Own(S, R, sid) ==
    <<S[sid].expected_seq, S[sid].buffered_chunks, S[sid].transcript,
      S[sid].word_count, S[sid].summary, S[sid].status, sid \in R>>

\* The step is an operation on session sid: a request that names it or a
\* step of one of its coroutines.
OperationOn(sid) ==
    \/ \E seq \in Seqs, ext \in Extensions : UploadChunk(sid, seq, ext)
    \/ EndSession(sid)
    \/ \E i \in 1..Len(tasks) : tasks[i].sid = sid /\ TaskStep(i)

\* C25: an operation on session A (an upload, a step of a chunk's
\* pipeline with its drain and its summary, a finalize step) leaves
\* expected_seq, buffered_chunks, transcript, word_count, summary, status
\* and the recogniser of every other session B as they were.
C25_Frame ==
    [][\A A \in SessionIds, B \in SessionIds :
          (A # B /\ OperationOn(A))
              => Own(sessions', recognizers', B)
                     = Own(sessions, recognizers, B)]_vars

\* C25: no coroutine ever waits on anything held for a session: in
\* every state, whatever the other session is doing, the next step of
\* every coroutine suspended at an await can be taken, and so can the
\* first step of the oldest coroutine that has not started.
C25_NeverWaits ==
    \A i \in 1..Len(tasks) :
        (\/ tasks[i].pc # "start"
         \/ \A j \in 1..(i - 1) : tasks[j].pc # "start")
            => ENABLED TaskStep(i)

C25_Independence == C25_Frame /\ []C25_NeverWaits

\* S2 has had chunk 0 transcribed and a summary made of it; S1 was sent
\* chunk 1, then chunk 0, and the drain that followed chunk 0 has taken
\* chunk 1 into the pipeline, with S2's record as it was.
C25_Witness ==
    /\ arrivals["S2"] = <<0>>
    /\ arrivals["S1"] = <<1, 0>>
    /\ sessions["S2"].expected_seq = 1
    /\ sessions["S2"].transcript = <<Space, TextOf(0)>>
    /\ sessions["S2"].summary = <<120>>
    /\ sessions["S1"].expected_seq = 1
    /\ sessions["S1"].transcript = <<Space, TextOf(0)>>
    /\ sessions["S1"].buffered_chunks = EmptyBuffer
    /\ recognizers = {"S1", "S2"}
    /\ Len(tasks) = 1
    /\ tasks[1].sid = "S1"
    /\ tasks[1].seq = 1
    /\ tasks[1].pc = "convert"

\* The step is the upload of a chunk for session sid or a step of the
\* pipeline of one of its chunks.
ChunkStep(sid) ==
    \/ \E seq \in Seqs, ext \in Extensions : UploadChunk(sid, seq, ext)
    \/ \E i \in 1..Len(tasks) :
          /\ tasks[i].sid = sid
          /\ tasks[i].seq >= 0
          /\ Start(i) \/ ConvertDone(i) \/ TranscriptSent(i) \/ SummarySent(i)

\* C26 (as claimed): once finalize_session has set a session's status to
\* ended, a chunk uploaded later or still in its pipeline is dropped: its
\* steps leave transcript, word_count, summary and expected_seq as they
\* were, publish no event and create no recogniser for the session.
C26_LateChunksDropped ==
    [][\A sid \in Clients :
          (/\ sid \in DOMAIN sessions
           /\ sessions[sid].status = "ended"
           /\ ChunkStep(sid))
              => /\ sessions'[sid].transcript = sessions[sid].transcript
                 /\ sessions'[sid].word_count = sessions[sid].word_count
                 /\ sessions'[sid].summary = sessions[sid].summary
                 /\ sessions'[sid].expected_seq = sessions[sid].expected_seq
                 /\ events' = events
                 /\ (sid \in recognizers') => (sid \in recognizers)]_vars

\* C27 (as claimed): a client that is registered from before a
\* broadcast starts until after it has returned receives its message
\* exactly once, whichever other clients connect, disconnect or are
\* pruned meanwhile: when no broadcast is running, a client registered
\* since the start and still registered has every message handed to
\* broadcast once in its inbox.
C27_ExactlyOnce ==
    NoCasts =>
        \A c \in Stayers :
            c \in Range(active_connections)
                => \A k \in 1..Len(events) : Count(inbox[c], events[k]) = 1

\* The message the step has published, if it has published one.
Published == IF Len(events') > Len(events) THEN {events'[Len(events')]} ELSE {}

\* C28 (as claimed): outside create_session, a step that changes a
\* session's stored summary is a step that called Summarize and stores a
\* non-empty result, in the chunk pipeline and in finalize_session alike,
\* and every summary event published carries a non-empty summary, the one
\* stored for its session.
C28_SummaryNeverEmptied ==
    [][\A sid \in Clients :
          (/\ sid \in DOMAIN sessions
           /\ creates'[sid] = creates[sid])
              => /\ sessions'[sid].summary # sessions[sid].summary
                    => /\ sessions'[sid].summary # NoSummary
                       /\ summarize_calls'[sid] = summarize_calls[sid] + 1
                 /\ \A m \in Published :
                       (m.type = "summary" /\ m.session_id = sid)
                          => /\ m.summary # NoSummary
                             /\ m.summary = sessions'[sid].summary]_vars

====
